---- MODULE Spec2Model ----
(***************************************************************************)
(* Model of src/main.py: a Flask wrapper around the OpenExchangeRates      *)
(* time-series API.  A query for [start_date, end_date] is split into one  *)
(* upstream request per calendar month, the monthly responses are merged   *)
(* into one mapping, flattened, cached for CACHE_EXPIRY seconds and        *)
(* returned.                                                               *)
(*                                                                         *)
(* Representation.  A date string "YYYY-MM-DD" is the record               *)
(* [year, month, day]; the record need not be a calendar date (the code    *)
(* builds "2023-02-31").  String comparison of zero-padded dates is the    *)
(* lexicographic order on (year, month, day).  A month label "YYYY-MM" is  *)
(* the number year * 100 + month.  An optional request argument is         *)
(* [some, val]; Python's None is [some |-> FALSE].                         *)
(***************************************************************************)
EXTENDS Integers, Sequences, FiniteSets, TLC

VARIABLES
    range,      \* partition specification: the validated (start_date, end_date)
    plan,       \* partition specification: the sub-ranges computed for range
    planned,    \* partition specification: TRUE once plan has been computed
    walk,       \* walk specification: the locals of get_months_between_dates,
                \* [current_year, current_month, months, returned]
    cache,      \* the module-level dict: cache_key -> [data, timestamp]
    now,        \* time.time(), in whole seconds
    pc,         \* per handler thread: where exchange_rates() stands
    args,       \* per handler: request.args of the query being served
    app_id,     \* per handler: the resolved credential
    months,     \* per handler: get_months_between_dates(start_date, end_date)
    loop_i,     \* per handler: the loop index i of enumerate(months)
    combined_rates, \* per handler: the accumulator, an insertion-ordered dict
    result,     \* per handler: the (status, body) returned to the caller
    inflight,   \* per handler: the upstream request being waited for
    log,        \* history, per handler: the "sleep"/"call" events of the query
    seen,       \* history, per handler: what the cache check found
    before,     \* history, per handler: the cache when the query arrived
    replies,    \* history, per handler: the upstream replies of the query
    stores,     \* history: every cache store, as [query, key, at]
    origin,     \* history: cache_key -> [by, data, at, hits], the thread that
                \* stored the record now under the key, the data it returned
                \* to its caller, the time of the store, and the number of
                \* queries answered from the record
    handled,    \* history: number of queries received so far
    odd         \* history: number of 200 replies so far that were not "asc"

partVars == <<range, plan, planned, walk>>

handlerVars == <<pc, args, app_id, months, loop_i, combined_rates, result, inflight>>

historyVars == <<log, seen, before, replies, stores, origin, handled, odd>>

serverVars == <<cache, now, handlerVars, historyVars>>

vars == <<partVars, serverVars>>

-----------------------------------------------------------------------------
(* Bounds of the model *)

\* number of consecutive years, from 2023 on, the partition inputs span
NumYears == 2

\* the years of the partition inputs: 2023 and the leap year 2024 first
Years == 2023 .. (2023 + NumYears - 1)

\* the days of a month the partition inputs are drawn from
TestDays == {1, 2, 15, 28, 29, 30, 31}

\* the partition inputs end at most this many months after the month they start in
MaxSpan == 3

\* number of queries the server receives in one behaviour
MaxRequests == 2

\* number of queries the threaded server receives in one behaviour
MaxConcRequests == 3

\* number of queries the server receives in one behaviour of the expiry
\* specification
MaxTtlRequests == 3

\* the clock advances, other than by time.sleep, up to this many seconds past
\* CACHE_EXPIRY
MaxSlack == 3

\* number of 200 replies in one behaviour that are not the dates asked for in
\* ascending order
MaxOddReplies == 1

CACHE_EXPIRY == 3600

-----------------------------------------------------------------------------
(* Calendar: what datetime.strptime(s, '%Y-%m-%d') accepts *)

Date(y, m, d) == [year |-> y, month |-> m, day |-> d]

IsLeap(y) == (y % 4 = 0 /\ y % 100 # 0) \/ y % 400 = 0

DaysInMonth(y, m) ==
    IF m = 2 THEN (IF IsLeap(y) THEN 29 ELSE 28)
    ELSE IF m \in {4, 6, 9, 11} THEN 30 ELSE 31

IsCalendarDate(dt) ==
    /\ dt.year \in 1..9999
    /\ dt.month \in 1..12
    /\ dt.day >= 1
    /\ dt.day <= DaysInMonth(dt.year, dt.month)

\* string order of two zero-padded "YYYY-MM-DD" strings (also datetime order)
DateLt(a, b) ==
    \/ a.year < b.year
    \/ a.year = b.year /\ a.month < b.month
    \/ a.year = b.year /\ a.month = b.month /\ a.day < b.day

DateLeq(a, b) == a = b \/ DateLt(a, b)

-----------------------------------------------------------------------------
(* get_months_between_dates and get_month_range *)

\* f"{current_year}-{current_month:02d}"
MonthLabel(y, m) == y * 100 + m

\* year, month = map(int, year_month.split('-'))
LabelYear(label) == label \div 100

LabelMonth(label) == label % 100

\* variant whose loop stops before the month of end_date
RECURSIVE MonthWalk_exclusive(_, _, _, _)
MonthWalk_exclusive(cy, cm, ey, em) ==
    IF cy < ey \/ (cy = ey /\ cm < em)
    THEN <<MonthLabel(cy, cm)>> \o
         (IF cm = 12 THEN MonthWalk_exclusive(cy + 1, 1, ey, em)
                     ELSE MonthWalk_exclusive(cy, cm + 1, ey, em))
    ELSE <<>>

\* the while loop of get_months_between_dates, from (cy, cm) on
RECURSIVE MonthWalk(_, _, _, _)
MonthWalk(cy, cm, ey, em) ==
    IF cy < ey \/ (cy = ey /\ cm <= em)
    THEN <<MonthLabel(cy, cm)>> \o
         (IF cm = 12 THEN MonthWalk(cy + 1, 1, ey, em)
                     ELSE MonthWalk(cy, cm + 1, ey, em))
    ELSE <<>>

get_months_between_dates(start_date, end_date) ==
    MonthWalk(start_date.year, start_date.month, end_date.year, end_date.month)

\* variant that clips neither end to the requested range
get_month_range_unclipped(year_month, start_date, end_date) ==
    LET year  == LabelYear(year_month)
        month == LabelMonth(year_month)
    IN  <<Date(year, month, 1), Date(year, month, 31)>>

\* variant that ends a month on its true last day (calendar.monthrange)
get_month_range_calendar(year_month, start_date, end_date) ==
    LET year  == LabelYear(year_month)
        month == LabelMonth(year_month)
        month_start == IF year = start_date.year /\ month = start_date.month
                       THEN start_date ELSE Date(year, month, 1)
        month_end   == IF year = end_date.year /\ month = end_date.month
                       THEN end_date
                       ELSE Date(year, month, DaysInMonth(year, month))
    IN  <<month_start, month_end>>

get_month_range(year_month, start_date, end_date) ==
    LET year  == LabelYear(year_month)
        month == LabelMonth(year_month)
        month_start == IF year = start_date.year /\ month = start_date.month
                       THEN start_date ELSE Date(year, month, 1)
        month_end   == IF year = end_date.year /\ month = end_date.month
                       THEN end_date ELSE Date(year, month, 31)
    IN  <<month_start, month_end>>

\* the sub-ranges the request loop asks the upstream for, in order
SubRanges(start_date, end_date) ==
    LET ms == get_months_between_dates(start_date, end_date)
    IN  [k \in 1..Len(ms) |-> get_month_range(ms[k], start_date, end_date)]

-----------------------------------------------------------------------------
(* Request arguments, validation and the cache key *)

\* request.args.get(name): None when the argument is absent
None == [some |-> FALSE, val |-> ""]

Some(v) == [some |-> TRUE, val |-> v]

NoDate == [some |-> FALSE, val |-> Date(0, 0, 0)]

\* Python truthiness of an optional string: neither None nor ""
Truthy(o) == o.some /\ o.val # ""

\* how an f-string renders an optional string
Str(o) == IF o.some THEN o.val ELSE "None"

Pad2(n) == IF n < 10 THEN "0" \o ToString(n) ELSE ToString(n)

\* the text of a date argument
DateStr(dt) == ToString(dt.year) \o "-" \o Pad2(dt.month) \o "-" \o Pad2(dt.day)

validate_date(dt) == IsCalendarDate(dt)

\* request.args.get('app_id') or os.environ.get('OPENEXCHANGERATES_APP_ID')
ResolveAppId(a, env) == IF Truthy(a.app_id) THEN a.app_id ELSE env

\* variant that rejects start_date = end_date
Validate_strict(a, app) ==
    IF ~Truthy(app) THEN "API key (app_id) is required"
    ELSE IF ~a.start_date.some \/ ~a.end_date.some
         THEN "start_date and end_date are required"
    ELSE IF ~validate_date(a.start_date.val) \/ ~validate_date(a.end_date.val)
         THEN "Invalid date format. Use YYYY-MM-DD"
    ELSE IF ~DateLt(a.start_date.val, a.end_date.val)
         THEN "start_date must be before end_date"
    ELSE ""

\* the validation of exchange_rates: the error message, "" when the query is valid
Validate(a, app) ==
    IF ~Truthy(app) THEN "API key (app_id) is required"
    ELSE IF ~a.start_date.some \/ ~a.end_date.some
         THEN "start_date and end_date are required"
    ELSE IF ~validate_date(a.start_date.val) \/ ~validate_date(a.end_date.val)
         THEN "Invalid date format. Use YYYY-MM-DD"
    ELSE IF DateLt(a.end_date.val, a.start_date.val)
         THEN "start_date must be before end_date"
    ELSE ""

\* cache_key = f"{start_date}_{end_date}_{symbols}_{base}_{app_id}"
cache_key(a, app) ==
    DateStr(a.start_date.val) \o "_" \o DateStr(a.end_date.val) \o "_" \o
    Str(a.symbols) \o "_" \o Str(a.base) \o "_" \o Str(app)

\* variant with the expiry test the wrong way round
CacheFresh_inverted(c, key, t) ==
    key \in DOMAIN c /\ (t - c[key].timestamp) > CACHE_EXPIRY

\* variant with an inclusive expiry test
CacheFresh_inclusive(c, key, t) ==
    key \in DOMAIN c /\ (t - c[key].timestamp) <= CACHE_EXPIRY

\* cache_key in cache and (time.time() - cache[cache_key]['timestamp']) < CACHE_EXPIRY
CacheFresh(c, key, t) ==
    key \in DOMAIN c /\ (t - c[key].timestamp) < CACHE_EXPIRY

\* variant that rebinds the cache to a dict holding the new record only
CachePut_only(c, key, data, t) ==
    [k \in {key} |-> [data |-> data, timestamp |-> t]]

\* cache[cache_key] = {'data': ..., 'timestamp': ...}
CachePut(c, key, data, t) ==
    [k \in DOMAIN c \cup {key} |->
        IF k = key THEN [data |-> data, timestamp |-> t] ELSE c[k]]

\* variant that sleeps before every call
NeedsDelay_always(idx) == idx >= 0

\* if i > 0: time.sleep(1)
NeedsDelay(idx) == idx > 0

\* the query string of the upstream URL; symbols and base only when truthy
Url(app, sub, a) ==
    [app_id  |-> Str(app),
     start   |-> sub[1],
     end     |-> sub[2],
     symbols |-> IF Truthy(a.symbols) THEN a.symbols ELSE None,
     base    |-> IF Truthy(a.base) THEN a.base ELSE None]

-----------------------------------------------------------------------------
(* Insertion-ordered dicts, as sequences of <<key, value>> *)

DictKeys(d) == {d[k][1] : k \in 1..Len(d)}

\* variant that keeps the value already present
DictSet_keep(d, key, value) ==
    IF key \in DictKeys(d) THEN d ELSE Append(d, <<key, value>>)

\* d[key] = value: in place when the key is present, appended otherwise
DictSet(d, key, value) ==
    IF key \in DictKeys(d)
    THEN [k \in 1..Len(d) |-> IF d[k][1] = key THEN <<key, value>> ELSE d[k]]
    ELSE Append(d, <<key, value>>)

\* variant that assigns instead of updating
DictUpdate_assign(d, other) == other

\* d.update(other)
RECURSIVE DictUpdate(_, _)
DictUpdate(d, other) ==
    IF other = <<>> THEN d
    ELSE DictUpdate(DictSet(d, Head(other)[1], Head(other)[2]), Tail(other))

\* the inner loop of transform_rates_format for one date
FlattenDay(day, currencies) ==
    [k \in 1..Len(currencies) |->
        [day |-> day, price |-> currencies[k][2], symbol |-> currencies[k][1]]]

RECURSIVE transform_rates_format(_)
transform_rates_format(rates_data) ==
    IF rates_data = <<>> THEN <<>>
    ELSE FlattenDay(Head(rates_data)[1], Head(rates_data)[2]) \o
         transform_rates_format(Tail(rates_data))

-----------------------------------------------------------------------------
(* The upstream: what requests.get(url) may come back with *)

Reverse(sq) == [k \in 1..Len(sq) |-> sq[Len(sq) + 1 - k]]

\* the calendar day before the calendar date dt
PrevDay(dt) ==
    IF dt.day > 1 THEN Date(dt.year, dt.month, dt.day - 1)
    ELSE IF dt.month > 1
         THEN Date(dt.year, dt.month - 1, DaysInMonth(dt.year, dt.month - 1))
         ELSE Date(dt.year - 1, 12, 31)

Currencies(price) == << <<"EUR", price>>, <<"GBP", price + 1>> >>

\* one entry per calendar date from url.start to url.end, ascending
HonestRates(url) ==
    LET first == url.start.day
        last  == IF url.end.day <= DaysInMonth(url.start.year, url.start.month)
                 THEN url.end.day
                 ELSE DaysInMonth(url.start.year, url.start.month)
    IN  [k \in 1..(last - first + 1) |->
            <<Date(url.start.year, url.start.month, first + k - 1), Currencies(1)>>]

\* the shapes of a 200 reply: the dates asked for in ascending or descending
\* order, the same followed by a re-quoted entry for the day before the
\* range, or a body without a "rates" field
ReplyShapes == {"asc", "desc", "overlap", "norates"}

UpstreamRates(shape, url) ==
    CASE shape = "asc"     -> HonestRates(url)
      [] shape = "desc"    -> Reverse(HonestRates(url))
      [] shape = "overlap" -> Append(HonestRates(url),
                                     <<PrevDay(url.start), Currencies(3)>>)
      [] shape = "norates" -> <<>>

\* the non-200 replies: (status_code, text)
UpstreamErrors ==
    {[status |-> 401, text |-> "invalid_app_id"],
     [status |-> 429, text |-> "too_many_requests"]}

-----------------------------------------------------------------------------
(* The server: exchange_rates() as a state machine, one step per statement *)
(* that reads or writes shared state, waits, or returns                    *)

\* the handler threads of the server
Threads == {1, 2}

\* the thread that serves the queries when they arrive one after another
SeqThreads == {1}

Query(s, e, sy, b, a) ==
    [start_date |-> s, end_date |-> e, symbols |-> sy, base |-> b, app_id |-> a]

\* the queries the server receives
Requests ==
    LET key == Some("k1")
        leapDay == Some(Date(2024, 2, 29))
    IN  { Query(Some(Date(2023, 1, 15)), Some(Date(2023, 2, 10)), None, None, key),
          Query(Some(Date(2024, 1, 31)), Some(Date(2024, 3, 1)), None, None, key),
          Query(leapDay, leapDay, None, None, key),
          Query(leapDay, leapDay, Some("None"), None, key),
          Query(leapDay, leapDay, Some("EUR_GBP"), Some("USD"), key),
          Query(leapDay, leapDay, None, None, None),
          Query(Some(Date(2023, 2, 10)), Some(Date(2023, 1, 15)), None, None, key),
          Query(Some(Date(2023, 2, 30)), Some(Date(2023, 3, 1)), None, None, key),
          Query(NoDate, Some(Date(2023, 3, 1)), None, None, key) }

\* the shapes of the 200 replies when the queries arrive one after another;
\* replies that quote a date twice are left to the threaded server
SeqShapes == ReplyShapes \ {"overlap"}

\* the values of OPENEXCHANGERATES_APP_ID
Environs == {None, Some("k1")}

\* the amounts by which the clock advances between handler steps
TickSteps == {CACHE_EXPIRY - 1, CACHE_EXPIRY}

MaxTime == CACHE_EXPIRY + MaxSlack

NoArgs == Query(NoDate, NoDate, None, None, None)

NoResult == [status |-> 0, error |-> "", data |-> <<>>]

NoUrl == [app_id |-> "", start |-> Date(0, 0, 0), end |-> Date(0, 0, 0),
          symbols |-> None, base |-> None]

NotSeen == [checked |-> FALSE, found |-> FALSE, timestamp |-> 0, at |-> 0,
            hit |-> FALSE, stored |-> {}]

\* the five inputs of a validated query
FiveTuple(a, app) ==
    <<a.start_date.val, a.end_date.val, a.symbols, a.base, Str(app)>>

ServerInit ==
    /\ cache = <<>>
    /\ now = 0
    /\ pc = [p \in Threads |-> "idle"]
    /\ args = [p \in Threads |-> NoArgs]
    /\ app_id = [p \in Threads |-> None]
    /\ months = [p \in Threads |-> <<>>]
    /\ loop_i = [p \in Threads |-> 0]
    /\ combined_rates = [p \in Threads |-> <<>>]
    /\ result = [p \in Threads |-> NoResult]
    /\ inflight = [p \in Threads |-> NoUrl]
    /\ log = [p \in Threads |-> <<>>]
    /\ seen = [p \in Threads |-> NotSeen]
    /\ before = [p \in Threads |-> <<>>]
    /\ replies = [p \in Threads |-> <<>>]
    /\ stores = {}
    /\ origin = <<>>
    /\ handled = 0
    /\ odd = 0

\* lines 93-110: a free thread reads the arguments of the next query, with env
\* the value of os.environ.get('OPENEXCHANGERATES_APP_ID'), and validates them
Receive(p, a, env) ==
    LET app == ResolveAppId(a, env)
        err == Validate(a, app)
    IN  /\ pc[p] \in {"idle", "done"}
        /\ handled' = handled + 1
        /\ args' = [args EXCEPT ![p] = a]
        /\ app_id' = [app_id EXCEPT ![p] = app]
        /\ before' = [before EXCEPT ![p] = cache]
        /\ months' = [months EXCEPT ![p] = <<>>]
        /\ loop_i' = [loop_i EXCEPT ![p] = 0]
        /\ combined_rates' = [combined_rates EXCEPT ![p] = <<>>]
        /\ inflight' = [inflight EXCEPT ![p] = NoUrl]
        /\ log' = [log EXCEPT ![p] = <<>>]
        /\ seen' = [seen EXCEPT ![p] = NotSeen]
        /\ replies' = [replies EXCEPT ![p] = <<>>]
        /\ IF err # ""
           THEN /\ result' = [result EXCEPT ![p] =
                                [status |-> 400, error |-> err, data |-> <<>>]]
                /\ pc' = [pc EXCEPT ![p] = "done"]
           ELSE /\ result' = [result EXCEPT ![p] = NoResult]
                /\ pc' = [pc EXCEPT ![p] = "check"]
        /\ UNCHANGED <<cache, now, stores, origin, odd>>
        /\ UNCHANGED partVars

\* lines 112-126: the cache check of line 114, then either the hit branch or
\* the planning of the months
CheckCache(p) ==
    LET key == cache_key(args[p], app_id[p])
        hit == CacheFresh(cache, key, now)
    IN  /\ pc[p] = "check"
        /\ seen' = [seen EXCEPT ![p] =
                      [checked |-> TRUE,
                       found |-> key \in DOMAIN cache,
                       timestamp |-> IF key \in DOMAIN cache
                                     THEN cache[key].timestamp ELSE 0,
                       at |-> now,
                       hit |-> hit,
                       stored |-> {st \in stores :
                                     st.query = FiveTuple(args[p], app_id[p])}]]
        /\ IF hit
           THEN /\ pc' = [pc EXCEPT ![p] = "hit"]
                /\ UNCHANGED <<months, loop_i, combined_rates, result>>
           ELSE /\ months' = [months EXCEPT ![p] =
                                get_months_between_dates(args[p].start_date.val,
                                                         args[p].end_date.val)]
                /\ loop_i' = [loop_i EXCEPT ![p] = 0]
                /\ combined_rates' = [combined_rates EXCEPT ![p] = <<>>]
                /\ pc' = [pc EXCEPT ![p] = "loop"]
                /\ UNCHANGED result
        /\ UNCHANGED <<cache, now, args, app_id, inflight, log, before,
                       replies, stores, origin, handled, odd>>
        /\ UNCHANGED partVars

\* variant that renews the record's timestamp when it serves it
ServeCached_refreshes(p) ==
    LET key == cache_key(args[p], app_id[p])
    IN  /\ pc[p] = "hit"
        /\ result' = [result EXCEPT ![p] =
                        [status |-> 200, error |-> "", data |-> cache[key].data]]
        /\ cache' = [cache EXCEPT ![key].timestamp = now]
        /\ origin' = [origin EXCEPT ![key].hits = @ + 1]
        /\ pc' = [pc EXCEPT ![p] = "done"]
        /\ UNCHANGED <<now, args, app_id, months, loop_i, combined_rates,
                       inflight, log, seen, before, replies, stores, handled, odd>>
        /\ UNCHANGED partVars

\* line 116: return jsonify(cache[cache_key]['data']), a second read of the
\* cache after the check of line 114
ServeCached(p) ==
    LET key == cache_key(args[p], app_id[p])
    IN  /\ pc[p] = "hit"
        /\ result' = [result EXCEPT ![p] =
                        [status |-> 200, error |-> "", data |-> cache[key].data]]
        /\ origin' = [origin EXCEPT ![key].hits = @ + 1]
        /\ pc' = [pc EXCEPT ![p] = "done"]
        /\ UNCHANGED <<cache, now, args, app_id, months, loop_i, combined_rates,
                       inflight, log, seen, before, replies, stores, handled, odd>>
        /\ UNCHANGED partVars

\* lines 145-147: time.sleep(1) before every call but the first
Sleep(p) ==
    /\ pc[p] = "loop"
    /\ loop_i[p] < Len(months[p])
    /\ NeedsDelay(loop_i[p])
    /\ now' = now + 1
    /\ log' = [log EXCEPT ![p] = Append(@, "sleep")]
    /\ pc' = [pc EXCEPT ![p] = "call"]
    /\ UNCHANGED <<cache, args, app_id, months, loop_i, combined_rates,
                   result, inflight, seen, before, replies, stores, origin, handled, odd>>
    /\ UNCHANGED partVars

\* variant that sends the request and moves on to the next month without
\* waiting for the response
Call_noWait(p) ==
    /\ \/ pc[p] = "call"
       \/ /\ pc[p] = "loop"
          /\ loop_i[p] < Len(months[p])
          /\ ~NeedsDelay(loop_i[p])
    /\ inflight' = [inflight EXCEPT ![p] =
                      Url(app_id[p],
                          get_month_range(months[p][loop_i[p] + 1],
                                          args[p].start_date.val,
                                          args[p].end_date.val),
                          args[p])]
    /\ log' = [log EXCEPT ![p] = Append(@, "call")]
    /\ loop_i' = [loop_i EXCEPT ![p] = @ + 1]
    /\ pc' = [pc EXCEPT ![p] = "loop"]
    /\ UNCHANGED <<cache, now, args, app_id, months,
                   combined_rates, result, seen, before, replies, stores, origin,
                   handled, odd>>
    /\ UNCHANGED partVars

\* lines 130-150: build the URL of months[i] and send requests.get(url)
Call(p) ==
    /\ \/ pc[p] = "call"
       \/ /\ pc[p] = "loop"
          /\ loop_i[p] < Len(months[p])
          /\ ~NeedsDelay(loop_i[p])
    /\ inflight' = [inflight EXCEPT ![p] =
                      Url(app_id[p],
                          get_month_range(months[p][loop_i[p] + 1],
                                          args[p].start_date.val,
                                          args[p].end_date.val),
                          args[p])]
    /\ log' = [log EXCEPT ![p] = Append(@, "call")]
    /\ pc' = [pc EXCEPT ![p] = "wait"]
    /\ UNCHANGED <<cache, now, args, app_id, months, loop_i,
                   combined_rates, result, seen, before, replies, stores, origin,
                   handled, odd>>
    /\ UNCHANGED partVars

\* variant that skips a month whose reply is not 200 and goes on
ReplyError_goesOn(p, e) ==
    /\ pc[p] = "wait"
    /\ replies' = [replies EXCEPT ![p] =
                     Append(@, [url |-> inflight[p], status |-> e.status,
                                text |-> e.text, rates |-> <<>>])]
    /\ loop_i' = [loop_i EXCEPT ![p] = @ + 1]
    /\ pc' = [pc EXCEPT ![p] = "loop"]
    /\ UNCHANGED <<cache, now, args, app_id, months, combined_rates, result,
                   inflight, log, seen, before, stores, origin, handled, odd>>
    /\ UNCHANGED partVars

\* lines 152-155: a status other than 200 ends the query with that status
ReplyError(p, e) ==
    /\ pc[p] = "wait"
    /\ replies' = [replies EXCEPT ![p] =
                     Append(@, [url |-> inflight[p], status |-> e.status,
                                text |-> e.text, rates |-> <<>>])]
    /\ result' = [result EXCEPT ![p] =
                    [status |-> e.status,
                     error |-> "API Error (" \o ToString(e.status) \o "): " \o e.text,
                     data |-> <<>>]]
    /\ pc' = [pc EXCEPT ![p] = "done"]
    /\ UNCHANGED <<cache, now, args, app_id, months, loop_i,
                   combined_rates, inflight, log, seen, before, stores, origin, handled, odd>>
    /\ UNCHANGED partVars

\* variant that swallows the exception and goes on with the next month
ReplyRaise_skipsMonth(p) ==
    /\ pc[p] = "wait"
    /\ replies' = [replies EXCEPT ![p] =
                     Append(@, [url |-> inflight[p], status |-> 0,
                                text |-> "", rates |-> <<>>])]
    /\ loop_i' = [loop_i EXCEPT ![p] = @ + 1]
    /\ pc' = [pc EXCEPT ![p] = "loop"]
    /\ UNCHANGED <<cache, now, args, app_id, months, combined_rates, result,
                   inflight, log, seen, before, stores, origin, handled, odd>>
    /\ UNCHANGED partVars

\* variant that caches what has been merged so far before failing
ReplyRaise_cachesPartial(p) ==
    /\ pc[p] = "wait"
    /\ replies' = [replies EXCEPT ![p] =
                     Append(@, [url |-> inflight[p], status |-> 0,
                                text |-> "", rates |-> <<>>])]
    /\ cache' = CachePut(cache, cache_key(args[p], app_id[p]),
                         transform_rates_format(combined_rates[p]), now)
    /\ result' = [result EXCEPT ![p] =
                    [status |-> 500,
                     error |-> "Error processing request: " \o "ConnectionError",
                     data |-> <<>>]]
    /\ pc' = [pc EXCEPT ![p] = "done"]
    /\ UNCHANGED <<now, args, app_id, months, loop_i,
                   combined_rates, inflight, log, seen, before, stores, origin, handled, odd>>
    /\ UNCHANGED partVars

\* lines 150, 158, 182-194: requests.get or response.json() raises
ReplyRaise(p) ==
    /\ pc[p] = "wait"
    /\ replies' = [replies EXCEPT ![p] =
                     Append(@, [url |-> inflight[p], status |-> 0,
                                text |-> "", rates |-> <<>>])]
    /\ result' = [result EXCEPT ![p] =
                    [status |-> 500,
                     error |-> "Error processing request: " \o "ConnectionError",
                     data |-> <<>>]]
    /\ pc' = [pc EXCEPT ![p] = "done"]
    /\ UNCHANGED <<cache, now, args, app_id, months, loop_i,
                   combined_rates, inflight, log, seen, before, stores, origin, handled, odd>>
    /\ UNCHANGED partVars

\* lines 157-167: combined_rates.update(month_data.get("rates", {}))
ReplyOk(p, shape) ==
    LET rates == UpstreamRates(shape, inflight[p])
    IN  /\ pc[p] = "wait"
        /\ shape # "asc" => odd < MaxOddReplies
        /\ odd' = IF shape # "asc" THEN odd + 1 ELSE odd
        /\ replies' = [replies EXCEPT ![p] =
                         Append(@, [url |-> inflight[p], status |-> 200,
                                    text |-> "", rates |-> rates])]
        /\ combined_rates' = [combined_rates EXCEPT ![p] = DictUpdate(@, rates)]
        /\ loop_i' = [loop_i EXCEPT ![p] = @ + 1]
        /\ pc' = [pc EXCEPT ![p] = "loop"]
        /\ UNCHANGED <<cache, now, args, app_id, months, result,
                       inflight, log, seen, before, stores, origin, handled>>
        /\ UNCHANGED partVars

\* variant that caches the accumulator as it is and returns the flat list
Store_cachesAccumulator(p) ==
    LET key  == cache_key(args[p], app_id[p])
        data == transform_rates_format(combined_rates[p])
    IN  /\ pc[p] = "loop"
        /\ loop_i[p] = Len(months[p])
        /\ cache' = CachePut(cache, key, combined_rates[p], now)
        /\ stores' = stores \cup {[query |-> FiveTuple(args[p], app_id[p]),
                                   key |-> key, at |-> now]}
        /\ origin' = [k \in DOMAIN origin \cup {key} |->
                         IF k = key THEN [by |-> p, data |-> data, at |-> now,
                                          hits |-> 0]
                                    ELSE origin[k]]
        /\ result' = [result EXCEPT ![p] =
                        [status |-> 200, error |-> "", data |-> data]]
        /\ pc' = [pc EXCEPT ![p] = "done"]
        /\ UNCHANGED <<now, args, app_id, months, loop_i, combined_rates,
                       inflight, log, seen, before, replies, handled, odd>>
        /\ UNCHANGED partVars

\* variant that adds the new entries to the record already under the key
Store_mergesRecord(p) ==
    LET key  == cache_key(args[p], app_id[p])
        data == transform_rates_format(combined_rates[p])
        old  == IF key \in DOMAIN cache THEN cache[key].data ELSE <<>>
    IN  /\ pc[p] = "loop"
        /\ loop_i[p] = Len(months[p])
        /\ cache' = CachePut(cache, key, old \o data, now)
        /\ stores' = stores \cup {[query |-> FiveTuple(args[p], app_id[p]),
                                   key |-> key, at |-> now]}
        /\ origin' = [k \in DOMAIN origin \cup {key} |->
                         IF k = key THEN [by |-> p, data |-> data, at |-> now,
                                          hits |-> 0]
                                    ELSE origin[k]]
        /\ result' = [result EXCEPT ![p] =
                        [status |-> 200, error |-> "", data |-> data]]
        /\ pc' = [pc EXCEPT ![p] = "done"]
        /\ UNCHANGED <<now, args, app_id, months, loop_i, combined_rates,
                       inflight, log, seen, before, replies, handled, odd>>
        /\ UNCHANGED partVars

\* lines 169-179: after the last month, flatten, store in the cache, return
Store(p) ==
    LET key  == cache_key(args[p], app_id[p])
        data == transform_rates_format(combined_rates[p])
    IN  /\ pc[p] = "loop"
        /\ loop_i[p] = Len(months[p])
        /\ cache' = CachePut(cache, key, data, now)
        /\ stores' = stores \cup {[query |-> FiveTuple(args[p], app_id[p]),
                                   key |-> key, at |-> now]}
        /\ origin' = [k \in DOMAIN origin \cup {key} |->
                         IF k = key THEN [by |-> p, data |-> data, at |-> now,
                                          hits |-> 0]
                                    ELSE origin[k]]
        /\ result' = [result EXCEPT ![p] =
                        [status |-> 200, error |-> "", data |-> data]]
        /\ pc' = [pc EXCEPT ![p] = "done"]
        /\ UNCHANGED <<now, args, app_id, months, loop_i, combined_rates,
                       inflight, log, seen, before, replies, handled, odd>>
        /\ UNCHANGED partVars

\* the thread's next step reads time.time(): the cache check or the store
ReadsClock(p) ==
    \/ pc[p] = "check"
    \/ pc[p] = "loop" /\ loop_i[p] = Len(months[p])

\* time passes; it shows only in the next reading of the clock
Tick(d) ==
    /\ now + d <= MaxTime
    /\ \E p \in Threads : ReadsClock(p)
    /\ now' = now + d
    /\ UNCHANGED <<cache, handlerVars, log, seen, before, replies,
                   stores, origin, handled, odd>>
    /\ UNCHANGED partVars

\* get_months_between_dates is not running
NoWalk == [current_year |-> 0, current_month |-> 0, months |-> <<>>,
           returned |-> FALSE]

Init ==
    /\ ServerInit
    /\ range = <<Date(0, 0, 0), Date(0, 0, 0)>>
    /\ plan = <<>>
    /\ planned = FALSE
    /\ walk = NoWalk

Next ==
    \/ \E p \in SeqThreads, a \in Requests, env \in Environs :
          handled < MaxRequests /\ Receive(p, a, env)
    \/ \E p \in SeqThreads : CheckCache(p)
    \/ \E p \in SeqThreads : ServeCached(p)
    \/ \E p \in SeqThreads : Sleep(p)
    \/ \E p \in SeqThreads : Call(p)
    \/ \E p \in SeqThreads, e \in UpstreamErrors : ReplyError(p, e)
    \/ \E p \in SeqThreads : ReplyRaise(p)
    \/ \E p \in SeqThreads, shape \in SeqShapes : ReplyOk(p, shape)
    \/ \E p \in SeqThreads : Store(p)
    \/ \E d \in TickSteps : Tick(d)

Spec == Init /\ [][Next]_vars

-----------------------------------------------------------------------------
(* Partition specification: the planning functions on every bounded range *)

PartDates ==
    {dt \in {Date(y, m, d) : y \in Years, m \in 1..12, d \in TestDays} :
        IsCalendarDate(dt)}

\* the valid ranges the planning functions are applied to
PartRanges ==
    {r \in PartDates \X PartDates :
        /\ DateLeq(r[1], r[2])
        /\ 12 * (r[2].year - r[1].year) + r[2].month - r[1].month <= MaxSpan}

PartInit ==
    /\ range \in PartRanges
    /\ plan = <<>>
    /\ planned = FALSE
    /\ walk = NoWalk
    /\ ServerInit

Plan ==
    /\ ~planned
    /\ plan' = SubRanges(range[1], range[2])
    /\ planned' = TRUE
    /\ UNCHANGED <<range, walk>>
    /\ UNCHANGED serverVars

PartNext == Plan

PartSpec == PartInit /\ [][PartNext]_vars

-----------------------------------------------------------------------------
(* Walk specification: get_months_between_dates on every bounded range,    *)
(* one step per iteration of its while loop                                *)

\* lines 27-34: the function is entered; months = [], current = start
WalkInit ==
    /\ range \in PartRanges
    /\ plan = <<>>
    /\ planned = FALSE
    /\ walk = [current_year |-> range[1].year, current_month |-> range[1].month,
               months |-> <<>>, returned |-> FALSE]
    /\ ServerInit

\* line 36: the condition of the while loop
WalkGoesOn ==
    \/ walk.current_year < range[2].year
    \/ walk.current_year = range[2].year /\ walk.current_month <= range[2].month

\* variant that counts the months from 0 after a December
WalkStep_zeroMonth ==
    /\ ~walk.returned
    /\ WalkGoesOn
    /\ walk' = [walk EXCEPT
                  !.months = Append(@, MonthLabel(walk.current_year,
                                                  walk.current_month)),
                  !.current_month = IF walk.current_month = 12 THEN 0 ELSE @ + 1,
                  !.current_year = IF walk.current_month = 12 THEN @ + 1 ELSE @]
    /\ UNCHANGED <<range, plan, planned>>
    /\ UNCHANGED serverVars

\* lines 37-43: one iteration: append the month, move on to the next
WalkStep ==
    /\ ~walk.returned
    /\ WalkGoesOn
    /\ walk' = [walk EXCEPT
                  !.months = Append(@, MonthLabel(walk.current_year,
                                                  walk.current_month)),
                  !.current_month = IF walk.current_month = 12 THEN 1 ELSE @ + 1,
                  !.current_year = IF walk.current_month = 12 THEN @ + 1 ELSE @]
    /\ UNCHANGED <<range, plan, planned>>
    /\ UNCHANGED serverVars

\* lines 36, 45: the condition fails and the function returns months
WalkReturn ==
    /\ ~walk.returned
    /\ ~WalkGoesOn
    /\ walk' = [walk EXCEPT !.returned = TRUE]
    /\ UNCHANGED <<range, plan, planned>>
    /\ UNCHANGED serverVars

WalkNext == WalkStep \/ WalkReturn

\* the function runs on until it returns
WalkSpec == WalkInit /\ [][WalkNext]_vars /\ WF_vars(WalkNext)

-----------------------------------------------------------------------------
(* Concurrent specification: the threaded server, two handler threads      *)
(* interleaving at every statement that touches the cache, waits or returns *)

\* the queries the threaded server receives: a range over two months and a
\* range inside one month, with the credential in the request
ConcRequests ==
    { Query(Some(Date(2024, 1, 31)), Some(Date(2024, 2, 1)), None, None, Some("k1")),
      Query(Some(Date(2024, 2, 28)), Some(Date(2024, 2, 29)), None, None, Some("k1")) }

\* the shapes of the 200 replies to the threaded server
ConcShapes == {"asc", "desc", "overlap"}

\* a new query is served by the first thread that is free
FirstFree(p) ==
    /\ pc[p] \in {"idle", "done"}
    /\ \A q \in Threads : q < p => pc[q] \notin {"idle", "done"}

ConcNext ==
    \/ \E p \in Threads, a \in ConcRequests :
          handled < MaxConcRequests /\ FirstFree(p) /\ Receive(p, a, None)
    \/ \E p \in Threads : CheckCache(p)
    \/ \E p \in Threads : ServeCached(p)
    \/ \E p \in Threads : Sleep(p)
    \/ \E p \in Threads : Call(p)
    \/ \E p \in Threads, e \in UpstreamErrors : ReplyError(p, e)
    \/ \E p \in Threads : ReplyRaise(p)
    \/ \E p \in Threads, shape \in ConcShapes : ReplyOk(p, shape)
    \/ \E p \in Threads : Store(p)

ConcSpec == Init /\ [][ConcNext]_vars

-----------------------------------------------------------------------------
(* Expiry specification: one thread, the clock jumping to one second less   *)
(* than CACHE_EXPIRY later and from then on advancing second by second      *)

\* the amounts by which the clock advances at time t
TtlTickSteps(t) == IF t < CACHE_EXPIRY - 1 THEN {CACHE_EXPIRY - 1} ELSE {1}

TtlNext ==
    \/ \E p \in SeqThreads, a \in ConcRequests :
          handled < MaxTtlRequests /\ Receive(p, a, None)
    \/ \E p \in SeqThreads : CheckCache(p)
    \/ \E p \in SeqThreads : ServeCached(p)
    \/ \E p \in SeqThreads : Sleep(p)
    \/ \E p \in SeqThreads : Call(p)
    \/ \E p \in SeqThreads, e \in UpstreamErrors : ReplyError(p, e)
    \/ \E p \in SeqThreads : ReplyRaise(p)
    \/ \E p \in SeqThreads, shape \in ConcShapes : ReplyOk(p, shape)
    \/ \E p \in SeqThreads : Store(p)
    \/ \E d \in TtlTickSteps(now) : Tick(d)

TtlSpec == Init /\ [][TtlNext]_vars

-----------------------------------------------------------------------------
(* Claims about the partitioning *)

\* the calendar dates d with r[1] <= d <= r[2] in string order
Covered(r) ==
    {dt \in UNION {{Date(ym[1], ym[2], d) : d \in 1..DaysInMonth(ym[1], ym[2])} :
                      ym \in (r[1].year .. r[2].year) \X
                             (IF r[1].year = r[2].year THEN r[1].month .. r[2].month
                                                       ELSE 1..12)} :
        DateLeq(r[1], dt) /\ DateLeq(dt, r[2])}

\* the total number of elements of a sequence of sets
RECURSIVE SumCard(_)
SumCard(sets) ==
    IF sets = <<>> THEN 0 ELSE Cardinality(Head(sets)) + SumCard(Tail(sets))

\* C1: for every valid range the sub-ranges, read as the sets of calendar
\* dates between their bounds, are chronologically ordered, pairwise
\* disjoint (their sizes add up to the size of the range), leave no calendar date between consecutive sub-ranges, have
\* every bound inside [start_date, end_date], and cover exactly the calendar
\* dates of [start_date, end_date].
C1_PartitionExact ==
    planned =>
        LET n   == Len(plan)
            cov == [i \in 1..n |-> Covered(plan[i])]
        IN
        /\ n >= 1
        /\ plan[1][1] = range[1]
        /\ plan[n][2] = range[2]
        /\ \A i \in 1..n :
              /\ DateLeq(plan[i][1], plan[i][2])
              /\ DateLeq(range[1], plan[i][1])
              /\ DateLeq(plan[i][2], range[2])
              /\ cov[i] # {}
        /\ \A i \in 1..(n - 1) :
              /\ DateLt(plan[i][2], plan[i + 1][1])
              /\ \A a \in cov[i], b \in cov[i + 1] : DateLt(a, b)
              /\ ~ \E dt \in Covered(<<plan[i][2], plan[i + 1][1]>>) :
                      DateLt(plan[i][2], dt) /\ DateLt(dt, plan[i + 1][1])
        /\ SumCard(cov) = Cardinality(Covered(range))
        /\ UNION {cov[i] : i \in 1..n} = Covered(range)

\* a range starting mid-month that spans a month shorter than 31 days
C1_Witness ==
    /\ planned
    /\ Len(plan) >= 3
    /\ range[1].day > 1
    /\ \E i \in 1..(Len(plan) - 1) :
          DaysInMonth(plan[i][1].year, plan[i][1].month) < 31

C16_OneMonthOneRange ==
    planned =>
        /\ Len(plan) >= 1
        /\ (range[1].year = range[2].year /\ range[1].month = range[2].month)
             => plan = << <<range[1], range[2]>> >>
        /\ range[1] = range[2]
             => /\ Len(plan) = 1
                /\ plan[1][1] = range[1]
                /\ plan[1][2] = range[1]

\* a range strictly inside one month, of more than one day
C16_Witness ==
    /\ planned
    /\ range[1].year = range[2].year
    /\ range[1].month = range[2].month
    /\ range[1].day > 1
    /\ range[2].day < DaysInMonth(range[2].year, range[2].month)
    /\ range[1] # range[2]
    /\ Len(plan) = 1

\* the k-th month from the month of dt on, as a label
MonthAfter(dt, k) ==
    MonthLabel(dt.year + ((dt.month - 1 + k) \div 12),
               ((dt.month - 1 + k) % 12) + 1)

\* C20: on every valid range the month walk returns, and what it returns
\* are 12 * (end_year - start_year) + (end_month - start_month) + 1 months:
\* the month of start_date first, the month of end_date last, each next one
\* the calendar month after the one before it, January of the next year
\* after a December; it is the list the sub-ranges are made from.
C20_WalkTerminates ==
    /\ <>(walk.returned)
    /\ [](walk.returned =>
             LET ms == walk.months
                 n  == 12 * (range[2].year - range[1].year)
                         + (range[2].month - range[1].month) + 1
             IN  /\ Len(ms) = n
                 /\ ms[1] = MonthLabel(range[1].year, range[1].month)
                 /\ ms[n] = MonthLabel(range[2].year, range[2].month)
                 /\ \A k \in 1..n : ms[k] = MonthAfter(range[1], k - 1)
                 /\ \A k \in 1..(n - 1) :
                       /\ ms[k] < ms[k + 1]
                       /\ LabelMonth(ms[k]) \in 1..12
                       /\ IF LabelMonth(ms[k]) = 12
                          THEN ms[k + 1] = MonthLabel(LabelYear(ms[k]) + 1, 1)
                          ELSE ms[k + 1] = ms[k] + 1
                 /\ ms = get_months_between_dates(range[1], range[2]))

\* a walk that has returned after going from a November through December
\* into the next year
C20_Witness ==
    /\ walk.returned
    /\ range[1].month = 11
    /\ range[2].year = range[1].year + 1
    /\ range[2].month = 2
    /\ Len(walk.months) = 4
    /\ walk.months[2] = MonthLabel(range[1].year, 12)
    /\ walk.months[3] = MonthLabel(range[2].year, 1)

-----------------------------------------------------------------------------
(* Claims about the server *)

\* the thread has a query in hand (being served, or just answered)
Serving(p) == pc[p] # "idle"

\* the query in hand got past validation and the cache lookup of lines 112-116
Checked(p) == Serving(p) /\ seen[p].checked /\ pc[p] # "hit"

\* the query in hand has been answered
Answered(p) == pc[p] = "done"

\* the age, at the cache check, of the record found under the query's key
AgeSeen(p) == seen[p].at - seen[p].timestamp

\* the number of upstream calls the query in hand has issued
Calls(p) == Cardinality({k \in 1..Len(log[p]) : log[p][k] = "call"})

Sleeps(p) == Cardinality({k \in 1..Len(log[p]) : log[p][k] = "sleep"})

\* the number of sub-ranges of the query in hand
Planned(p) == Len(SubRanges(args[p].start_date.val, args[p].end_date.val))

\* C3: when an identical query (same five inputs) completed a successful
\* upstream sequence and stored its result less than 3600 seconds before
\* this query's cache check, this query is answered from the cache with
\* status 200 and the stored data, issues no upstream call and no delay, and
\* stores nothing: the two queries trigger one upstream sequence.
C3_HitWithinTTL ==
    \A p \in Threads :
        (Checked(p) /\ \E st \in seen[p].stored : seen[p].at - st.at < CACHE_EXPIRY)
        => /\ Answered(p)
           /\ log[p] = <<>>
           /\ replies[p] = <<>>
           /\ result[p].status = 200
           /\ result[p].data = cache[cache_key(args[p], app_id[p])].data
           /\ cache = before[p]
           /\ {st \in stores : st.query = FiveTuple(args[p], app_id[p])}
                = seen[p].stored

\* a query answered from a record stored 3599 seconds earlier by an identical query
C3_Witness ==
    \E p \in Threads :
        /\ Answered(p)
        /\ seen[p].hit
        /\ \E st \in seen[p].stored : seen[p].at - st.at = CACHE_EXPIRY - 1
        /\ Planned(p) >= 1

\* C4: a record whose age at the cache check is 3600 seconds or more (3600
\* included) is not used: the query is not answered from it, a successful
\* answer comes after one upstream call per sub-range, and the record under
\* the key is then the new result with the time of the store as timestamp.
C4_DeadAtTTL ==
    \A p \in Threads :
        (Checked(p) /\ seen[p].found /\ AgeSeen(p) >= CACHE_EXPIRY)
        => /\ ~seen[p].hit
           /\ (Answered(p) /\ result[p].status = 200)
                => LET rec == cache[cache_key(args[p], app_id[p])] IN
                   /\ Calls(p) = Planned(p)
                   /\ Len(replies[p]) = Planned(p)
                   /\ rec.data = result[p].data
                   /\ rec.timestamp = now
                   /\ rec.timestamp >= seen[p].at
                   /\ rec.timestamp > seen[p].timestamp

\* a record found exactly 3600 seconds old, refetched and replaced
C4_Witness ==
    \E p \in Threads :
        /\ Answered(p)
        /\ result[p].status = 200
        /\ seen[p].found
        /\ AgeSeen(p) = CACHE_EXPIRY
        /\ cache[cache_key(args[p], app_id[p])].timestamp > seen[p].at

\* C5 as stated: the cache key is injective on the five inputs, so a query
\* answered from the cache is answered from a record that a query with the
\* same five inputs stored.
C5_KeyInjective ==
    \A p \in Threads :
        (Checked(p) /\ seen[p].hit)
        => \A st \in stores :
              st.key = cache_key(args[p], app_id[p])
              => st.query = FiveTuple(args[p], app_id[p])

\* C6: once an upstream reply has a status other than 200, the query is
\* answered with that status and a message holding that status and the
\* reply's text, with no data, and that reply is the query's last call.
C6_FailureAborts ==
    \A p \in Threads :
        \A k \in 1..Len(replies[p]) :
            (replies[p][k].status # 200 /\ replies[p][k].status # 0)
            => /\ k = Len(replies[p])
               /\ Calls(p) = k
               /\ Answered(p)
               /\ result[p].status = replies[p][k].status
               /\ result[p].error = "API Error (" \o ToString(replies[p][k].status)
                                      \o "): " \o replies[p][k].text
               /\ result[p].data = <<>>

\* the second of three planned calls fails
C6_Witness ==
    \E p \in Threads :
        /\ Answered(p)
        /\ Len(replies[p]) = 2
        /\ Planned(p) = 3
        /\ replies[p][1].status = 200
        /\ replies[p][2].status = 429
        /\ result[p].status = 429

\* what d.update(r[1]); d.update(r[2]); ... leaves in an empty dict, as a
\* mapping: each key with the value of the last reply that holds it
LastWrite(rs, key) ==
    LET holders == {k \in 1..Len(rs) : key \in DictKeys(rs[k].rates)}
        last    == CHOOSE k \in holders : \A j \in holders : j <= k
        pos     == CHOOSE j \in 1..Len(rs[last].rates) : rs[last].rates[j][1] = key
    IN  rs[last].rates[pos][2]

\* C7: the cache is written only on full success.  While a query is being
\* served, and after it has been answered with a failure or from the cache,
\* the cache is what it was when the query arrived; after a successful
\* fetch the cache differs from that only under the query's key, whose
\* record holds the flattened merge of the replies to all its sub-ranges.
C7_StoreOnlyOnSuccess ==
    \A p \in Threads :
        Serving(p) =>
            IF Answered(p) /\ result[p].status = 200 /\ ~seen[p].hit
            THEN LET key == cache_key(args[p], app_id[p]) IN
                 /\ Len(replies[p]) = Planned(p)
                 /\ \A k \in 1..Len(replies[p]) : replies[p][k].status = 200
                 /\ DOMAIN cache = DOMAIN before[p] \cup {key}
                 /\ \A k \in DOMAIN before[p] : k # key => cache[k] = before[p][k]
                 /\ cache[key].data = transform_rates_format(combined_rates[p])
                 /\ DictKeys(combined_rates[p])
                      = UNION {DictKeys(replies[p][k].rates) : k \in 1..Len(replies[p])}
                 /\ \A j \in 1..Len(combined_rates[p]) :
                       combined_rates[p][j][2]
                         = LastWrite(replies[p], combined_rates[p][j][1])
            ELSE cache = before[p]

\* an upstream failure leaves an expired record under the query's key as it was
C7_Witness ==
    \E p \in Threads :
        /\ Answered(p)
        /\ result[p].status \notin {200, 400}
        /\ seen[p].found
        /\ AgeSeen(p) >= CACHE_EXPIRY
        /\ Len(replies[p]) >= 2
        /\ cache = before[p]

\* a query that must be rejected: no credential in the request or the
\* environment, a date missing or not a calendar date, or start after end
Invalid(a, app) ==
    \/ ~app.some
    \/ app.val = ""
    \/ ~a.start_date.some
    \/ ~a.end_date.some
    \/ ~IsCalendarDate(a.start_date.val)
    \/ ~IsCalendarDate(a.end_date.val)
    \/ DateLt(a.end_date.val, a.start_date.val)

\* C8: a query is rejected with status 400 exactly when it is invalid
\* (start_date = end_date is valid); a rejected query is answered at once,
\* with no cache check, no upstream call, no delay and no cache write.
C8_ValidationRejects ==
    \A p \in Threads :
        Serving(p) =>
            /\ Invalid(args[p], app_id[p]) <=> (Answered(p) /\ result[p].status = 400)
            /\ Invalid(args[p], app_id[p])
                 => /\ Answered(p)
                    /\ result[p].error # ""
                    /\ result[p].data = <<>>
                    /\ ~seen[p].checked
                    /\ log[p] = <<>>
                    /\ replies[p] = <<>>
                    /\ cache = before[p]

\* a single-day query answered with data while the cache holds a record
C8_Witness ==
    \E p \in Threads :
        /\ Answered(p)
        /\ args[p].start_date = args[p].end_date
        /\ ~Invalid(args[p], app_id[p])
        /\ ~args[p].app_id.some
        /\ result[p].status = 200
        /\ result[p].data # <<>>

\* C9: the events of a query are call, sleep, call, sleep, ..., call: every
\* delay lies between two calls and none precedes the first call; a
\* successful fetch over N sub-ranges has N calls and N - 1 delays.
C9_Pacing ==
    \A p \in Threads :
        /\ \A k \in 1..Len(log[p]) :
              log[p][k] = IF k % 2 = 1 THEN "call" ELSE "sleep"
        /\ (Answered(p) /\ result[p].status = 200 /\ ~seen[p].hit)
             => /\ Calls(p) = Planned(p)
                /\ Sleeps(p) = Planned(p) - 1
                /\ Len(log[p]) = 2 * Planned(p) - 1

\* a successful fetch over three sub-ranges
C9_Witness ==
    \E p \in Threads :
        /\ Answered(p)
        /\ result[p].status = 200
        /\ ~seen[p].hit
        /\ Planned(p) = 3
        /\ log[p] = <<"call", "sleep", "call", "sleep", "call">>

\* the reply holds exactly one entry per calendar date of the range asked for
OnePerDate(reply) ==
    /\ reply.status = 200
    /\ DictKeys(reply.rates) = Covered(<<reply.url.start, reply.url.end>>)
    /\ Len(reply.rates) = Cardinality(DictKeys(reply.rates))

\* C10: when every reply of a successful fetch holds exactly one entry per
\* calendar date of its sub-range, the merged result holds every calendar
\* date from start_date to end_date once and no other date, and so does the
\* answer, once per currency; 2023-01-15 to 2023-02-10 is fetched as
\* (2023-01-15, 2023-01-31) and (2023-02-01, 2023-02-10), with two calls
\* and one delay.
C10_MergedCoversRange ==
    \A p \in Threads :
        (/\ Answered(p)
         /\ result[p].status = 200
         /\ ~seen[p].hit
         /\ \A k \in 1..Len(replies[p]) : OnePerDate(replies[p][k]))
        => LET span == Covered(<<args[p].start_date.val, args[p].end_date.val>>) IN
           /\ DictKeys(combined_rates[p]) = span
           /\ Len(combined_rates[p]) = Cardinality(span)
           /\ {result[p].data[k].day : k \in 1..Len(result[p].data)} = span
           /\ \A j, k \in 1..Len(result[p].data) :
                 (result[p].data[j].day = result[p].data[k].day
                  /\ result[p].data[j].symbol = result[p].data[k].symbol) => j = k
           /\ (/\ args[p].start_date.val = Date(2023, 1, 15)
               /\ args[p].end_date.val = Date(2023, 2, 10))
                => /\ Len(replies[p]) = 2
                   /\ replies[p][1].url.start = Date(2023, 1, 15)
                   /\ replies[p][1].url.end = Date(2023, 1, 31)
                   /\ replies[p][2].url.start = Date(2023, 2, 1)
                   /\ replies[p][2].url.end = Date(2023, 2, 10)
                   /\ log[p] = <<"call", "sleep", "call">>
                   /\ Len(combined_rates[p]) = 27

\* the example query fetched with one-entry-per-date replies
C10_Witness ==
    \E p \in Threads :
        /\ Answered(p)
        /\ result[p].status = 200
        /\ ~seen[p].hit
        /\ args[p].start_date.val = Date(2023, 1, 15)
        /\ args[p].end_date.val = Date(2023, 2, 10)
        /\ \A k \in 1..Len(replies[p]) : OnePerDate(replies[p][k])
        /\ \E k \in 1..Len(replies[p]) : replies[p][k].rates # HonestRates(replies[p][k].url)

-----------------------------------------------------------------------------
(* Claims about the threaded server *)

\* the query in hand missed the cache and has been answered with fetched data
Fetched(p) ==
    /\ Answered(p)
    /\ result[p].status = 200
    /\ seen[p].checked
    /\ ~seen[p].hit

\* C11: when two threads have both missed the cache with the same key and
\* both have finished successfully, each has issued one upstream call per
\* sub-range, and the record under the key is the whole result of the one
\* that stored last: its data is what that thread returned, the flattened
\* merge of the replies to all its sub-ranges and of nothing else.
C11_LastWriterWins ==
    \A p, q \in Threads :
        (/\ p # q
         /\ Fetched(p)
         /\ Fetched(q)
         /\ cache_key(args[p], app_id[p]) = cache_key(args[q], app_id[q]))
        => LET key == cache_key(args[p], app_id[p])
               w   == origin[key].by
           IN  /\ Calls(p) = Planned(p)
               /\ Calls(q) = Planned(q)
               /\ Len(replies[w]) = Planned(w)
               /\ \A k \in 1..Len(replies[w]) : replies[w][k].status = 200
               /\ cache[key].data = result[w].data
               /\ cache[key].data = transform_rates_format(combined_rates[w])
               /\ DictKeys(combined_rates[w])
                    = UNION {DictKeys(replies[w][k].rates) : k \in 1..Len(replies[w])}
               /\ \A j \in 1..Len(combined_rates[w]) :
                     combined_rates[w][j][2]
                       = LastWrite(replies[w], combined_rates[w][j][1])

\* both threads found no record for the two-month query, fetched different
\* data, and the thread that checked first stored last
C11_Witness ==
    \E p, q \in Threads :
        /\ p # q
        /\ Fetched(p)
        /\ Fetched(q)
        /\ args[p] = args[q]
        /\ Planned(p) = 2
        /\ ~seen[p].found
        /\ ~seen[q].found
        /\ result[p].data # result[q].data
        /\ origin[cache_key(args[p], app_id[p])].by = p
        /\ cache[cache_key(args[p], app_id[p])].data = result[p].data
        /\ Calls(q) = 2

\* the step is the cache store of thread p
StoreStep(p) == pc[p] = "loop" /\ pc'[p] = "done" /\ result'[p].status = 200

\* C12: reading a fingerprint as the key the code builds from the five
\* inputs: every step keeps every record of the cache, and changes the
\* record under a key only when it is the store of a query with that key;
\* and a thread about to read the cache for its key (the check of line 114,
\* the return of line 116) finds either no record or a whole one, the data
\* that a successful query with that key returned together with the time of
\* that store; after a fresh check the record is still there for the return.
C12_OtherKeysIntact ==
    /\ [][\A k \in DOMAIN cache :
            /\ k \in DOMAIN cache'
            /\ cache'[k] # cache[k]
                 => \E p \in Threads :
                       StoreStep(p) /\ cache_key(args[p], app_id[p]) = k]_vars
    /\ [](\A p \in Threads :
            pc[p] \in {"check", "hit"}
            => LET key == cache_key(args[p], app_id[p]) IN
               /\ pc[p] = "hit" => key \in DOMAIN cache
               /\ key \in DOMAIN cache
                    => /\ cache[key] = [data |-> origin[key].data,
                                        timestamp |-> origin[key].at]
                       /\ \E st \in stores :
                             st.key = key /\ st.at = cache[key].timestamp)

\* a thread between its fresh check and its return, while the other thread
\* has stored a record under another key since the query arrived
C12_Witness ==
    \E p, q \in Threads :
        LET key == cache_key(args[p], app_id[p])
            other == cache_key(args[q], app_id[q])
        IN  /\ p # q
            /\ pc[p] = "hit"
            /\ Fetched(q)
            /\ other # key
            /\ other \notin DOMAIN before[p]
            /\ other \in DOMAIN cache
            /\ origin[other].by = q
            /\ key \in DOMAIN before[p]
            /\ cache[key] = before[p][key]
            /\ cache[key].data # <<>>

\* the step is thread p getting an exception instead of an upstream response
RaiseStep(p) ==
    /\ pc[p] = "wait"
    /\ Len(replies'[p]) = Len(replies[p]) + 1
    /\ replies'[p][Len(replies'[p])].status = 0

\* C13: when the upstream call for a sub-range raises, that step writes
\* nothing to the cache, and from then on the query is answered with status
\* 500, an error message and no data, the call that raised is its last
\* call, and it stays answered, so it stores nothing later either.
C13_TransportFailure ==
    /\ [][\A p \in Threads :
            RaiseStep(p) => cache' = cache /\ stores' = stores /\ pc'[p] = "done"]_vars
    /\ [](\A p \in Threads :
            \A k \in 1..Len(replies[p]) :
                replies[p][k].status = 0
                => /\ k = Len(replies[p])
                   /\ Calls(p) = k
                   /\ Answered(p)
                   /\ result[p].status = 500
                   /\ result[p].error # ""
                   /\ result[p].data = <<>>)

\* one thread failed on the first of its two sub-ranges, the other on the
\* second after merging the first, and the cache is empty
C13_Witness ==
    \E p, q \in Threads :
        /\ p # q
        /\ Answered(p)
        /\ Answered(q)
        /\ Len(replies[p]) = 1
        /\ replies[p][1].status = 0
        /\ result[p].status = 500
        /\ Planned(p) = 2
        /\ Len(replies[q]) = 2
        /\ replies[q][2].status = 0
        /\ combined_rates[q] # <<>>
        /\ result[q].status = 500
        /\ cache = <<>>

\* C14 as stated: whatever the order in which each reply lists the dates of
\* its sub-range, the list returned by a successful fetch is in ascending
\* date order.
C14_AscendingDates ==
    \A p \in Threads :
        (/\ Fetched(p)
         /\ \A k \in 1..Len(replies[p]) : OnePerDate(replies[p][k]))
        => \A j \in 1..(Len(result[p].data) - 1) :
              DateLeq(result[p].data[j].day, result[p].data[j + 1].day)

\* an insertion-ordered dict as a mapping: its set of (key, value) pairs
AsMapping(d) == {<<d[k][1], d[k][2]>> : k \in 1..Len(d)}

\* d.update(rs[o[1]].rates); d.update(rs[o[2]].rates); ... for the order o
RECURSIVE MergeFrom(_, _, _)
MergeFrom(d, rs, order) ==
    IF order = <<>> THEN d
    ELSE MergeFrom(DictUpdate(d, rs[Head(order)].rates), rs, Tail(order))

\* the orders in which n replies can be merged
Orders(n) == {o \in [1..n -> 1..n] : \A j, k \in 1..n : o[j] = o[k] => j = k}

\* no date is listed by two of the replies
DateDisjoint(rs) ==
    \A j, k \in 1..Len(rs) :
        j < k => DictKeys(rs[j].rates) \cap DictKeys(rs[k].rates) = {}

\* C15: the accumulator of a query is the merge of its replies in the order
\* they came; it holds every date listed by some reply once, with the value
\* of the last reply that lists it; and when no date is listed by two
\* replies, merging the replies in any other order gives the same mapping.
C15_LastWriteWins ==
    \A p \in Threads :
        LET rs == replies[p]
            d  == combined_rates[p]
        IN  /\ d = MergeFrom(<<>>, rs, [k \in 1..Len(rs) |-> k])
            /\ Len(d) = Cardinality(DictKeys(d))
            /\ DictKeys(d) = UNION {DictKeys(rs[k].rates) : k \in 1..Len(rs)}
            /\ \A j \in 1..Len(d) : d[j][2] = LastWrite(rs, d[j][1])
            /\ DateDisjoint(rs)
                 => \A o \in Orders(Len(rs)) :
                       AsMapping(MergeFrom(<<>>, rs, o)) = AsMapping(d)

\* one thread has merged two replies that share no date, the other two
\* replies of which the second quotes 2024-01-31 again, at another price
C15_Witness ==
    \E p, q \in Threads :
        /\ p # q
        /\ Fetched(p)
        /\ Len(replies[p]) = 2
        /\ DateDisjoint(replies[p])
        /\ Len(combined_rates[p]) = 2
        /\ Fetched(q)
        /\ Len(replies[q]) = 2
        /\ ~DateDisjoint(replies[q])
        /\ <<Date(2024, 1, 31), Currencies(1)>> \in AsMapping(replies[q][1].rates)
        /\ <<Date(2024, 1, 31), Currencies(3)>> \in AsMapping(combined_rates[q])
        /\ Len(combined_rates[q]) = 2

\* C17: a query that missed the cache has at most one upstream call without
\* a reply, and exactly then it is waiting; its k-th call asks for its k-th
\* sub-range, and the sub-ranges follow one another in time; every call
\* before the latest has been answered with status 200 and its dates are
\* in the accumulator.
C17_SequentialCalls ==
    \A p \in Threads :
        (Serving(p) /\ seen[p].checked /\ ~seen[p].hit)
        => LET subs == SubRanges(args[p].start_date.val, args[p].end_date.val)
               c    == Calls(p)
               r    == Len(replies[p])
           IN  /\ c <= Len(subs)
               /\ r <= c
               /\ c <= r + 1
               /\ (c = r + 1) <=> (pc[p] = "wait")
               /\ pc[p] = "wait"
                    => /\ inflight[p].start = subs[c][1]
                       /\ inflight[p].end = subs[c][2]
               /\ \A k \in 1..r :
                     /\ replies[p][k].url.start = subs[k][1]
                     /\ replies[p][k].url.end = subs[k][2]
               /\ \A k \in 1..(c - 1) :
                     /\ DateLt(subs[k][2], subs[k + 1][1])
                     /\ replies[p][k].status = 200
                     /\ DictKeys(replies[p][k].rates) \subseteq DictKeys(combined_rates[p])
                     /\ loop_i[p] >= k

\* the second call of a query is in flight after its first was merged,
\* while the other thread's query has a call in flight too
C17_Witness ==
    \E p, q \in Threads :
        /\ p # q
        /\ pc[p] = "wait"
        /\ pc[q] = "wait"
        /\ Calls(p) = 2
        /\ Len(replies[p]) = 1
        /\ combined_rates[p] # <<>>
        /\ log[p] = <<"call", "sleep", "call">>

\* C18: a step changes the record under a key only by storing a new record
\* under it, stamped with the time of the store; the cache check and the
\* return from the cache leave the whole cache as it is; so every record
\* keeps the data and the time of its store, and a check that finds a
\* record hits exactly when fewer than 3600 seconds have passed since that
\* store, whatever number of queries the record has answered.
C18_RecordImmutable ==
    /\ [][\A k \in DOMAIN cache :
            (k \in DOMAIN cache' /\ cache'[k] # cache[k])
            => /\ cache'[k].timestamp = now
               /\ \E p \in Threads :
                     StoreStep(p) /\ cache_key(args[p], app_id[p]) = k]_vars
    /\ [][\A p \in Threads :
            (pc[p] \in {"check", "hit"} /\ pc'[p] # pc[p]) => cache' = cache]_vars
    /\ [](\A k \in DOMAIN cache :
            /\ cache[k].timestamp = origin[k].at
            /\ cache[k].data = origin[k].data)
    /\ [](\A p \in Threads :
            (Serving(p) /\ seen[p].checked /\ seen[p].found)
            => /\ seen[p].hit <=> (seen[p].at - seen[p].timestamp < CACHE_EXPIRY)
               /\ pc[p] = "hit"
                    => seen[p].timestamp
                         = origin[cache_key(args[p], app_id[p])].at)

\* a record that answered a query at the age of 3599 seconds is found
\* expired at the age of 3600 seconds
C18_Witness ==
    \E p \in Threads :
        LET key == cache_key(args[p], app_id[p]) IN
        /\ pc[p] = "loop"
        /\ seen[p].found
        /\ ~seen[p].hit
        /\ AgeSeen(p) = CACHE_EXPIRY
        /\ origin[key].hits >= 1
        /\ origin[key].at = seen[p].timestamp
        /\ cache[key].timestamp = seen[p].timestamp

\* C19: the step that answers a query from the cache returns, with status
\* 200, the list that the query that stored the record under the key
\* returned to its own caller, entry for entry.
C19_HitReturnsStored ==
    [][\A p \in Threads :
          (pc[p] = "hit" /\ pc'[p] = "done")
          => /\ result'[p].status = 200
             /\ result'[p].error = ""
             /\ result'[p].data = origin[cache_key(args[p], app_id[p])].data]_vars

\* a query answered with the list, latest date first, that an earlier query
\* fetched and returned, after a query with another key was fetched and
\* stored in between
C19_Witness ==
    \E p \in Threads :
        LET key == cache_key(args[p], app_id[p]) IN
        /\ Answered(p)
        /\ seen[p].checked
        /\ seen[p].hit
        /\ origin[key].hits = 1
        /\ result[p].data = origin[key].data
        /\ Len(result[p].data) = 4
        /\ result[p].data[1].day = Date(2024, 2, 29)
        /\ result[p].data[4].day = Date(2024, 2, 28)
        /\ \E other \in DOMAIN before[p] :
              /\ other # key
              /\ origin[other].at > origin[key].at

====
